---- MODULE Spec2Model ----
(***************************************************************************)
(* Attitude determination tutorials of the smbdmp repository: the          *)
(* star-tracker notebooks that build a star catalog, simulate a rotated    *)
(* observation, and call solve_attitude (SVD fit of Wahba's problem).      *)
(*                                                                         *)
(* Numbers are float64 in the notebooks; here every real number x is the   *)
(* integer round(x * K) (fixed point, four decimals).  Angles are whole    *)
(* degrees on a grid of AngleStep degrees.                                 *)
(***************************************************************************)
EXTENDS Integers, Sequences, FiniteSets, TLC

\* ------------------------------------------------------------------------
\* Bounds of the model
\* ------------------------------------------------------------------------
\* largest number of rows of a catalog / observation array
MaxStars == 3
\* largest magnitude (in units) of a raw, not yet normalized vector
MaxNorm == 2

\* ------------------------------------------------------------------------
\* Fixed-point arithmetic
\* ------------------------------------------------------------------------
\* the fixed-point representation of 1.0
K == 10000
\* comparison tolerance, in fixed-point units (5e-4)
Tol == 5
\* spacing of the angle grid, degrees
AngleStep == 5

Abs(x) == IF x < 0 THEN -x ELSE x

\* a / b rounded to the nearest integer, b > 0
RDiv(a, b) == IF a >= 0 THEN (2 * a + b) \div (2 * b)
              ELSE -((2 * (-a) + b) \div (2 * b))

RECURSIVE SumTo(_, _)
\* f[1] + ... + f[n]
SumTo(f, n) == IF n = 0 THEN 0 ELSE f[n] + SumTo(f, n - 1)

RECURSIVE Tup(_, _)
\* the tuple << f[1], ..., f[n] >>, with every element evaluated
Tup(f, n) == IF n = 0 THEN << >> ELSE Append(Tup(f, n - 1), f[n])

RECURSIVE Newton(_, _)
Newton(n, x) == LET y == (x + n \div x) \div 2
                IN IF y >= x THEN x ELSE Newton(n, y)
\* floor of the square root of n >= 0
ISqrt(n) == IF n = 0 THEN 0 ELSE Newton(n, n)

\* ------------------------------------------------------------------------
\* Vectors and matrices (numpy arrays): a matrix is a sequence of rows
\* ------------------------------------------------------------------------
\* the value of an unbound notebook name / an unset local
Undefined == << >>

Dot(u, v) == SumTo([k \in 1..Len(u) |-> u[k] * v[k]], Len(u))

\* M.T
Transpose(M) ==
    Tup([j \in 1..Len(M[1]) |-> Tup([i \in 1..Len(M) |-> M[i][j]], Len(M))],
        Len(M[1]))

\* A @ B for fixed-point A (n x m) and B (m x p)
MatMul(A, B) ==
    Tup([i \in 1..Len(A) |->
           Tup([j \in 1..Len(B[1]) |->
                  RDiv(SumTo([k \in 1..Len(B) |-> A[i][k] * B[k][j]], Len(B)),
                       K)], Len(B[1]))], Len(A))

\* M @ v for a column vector v
MatVec(M, v) == Tup([i \in 1..Len(M) |-> RDiv(Dot(M[i], v), K)], Len(M))

Column(M, j) == Tup([i \in 1..Len(M) |-> M[i][j]], Len(M))

Identity(n) ==
    Tup([i \in 1..n |-> Tup([j \in 1..n |-> IF i = j THEN K ELSE 0], n)], n)

Diag(s) ==
    Tup([i \in 1..Len(s) |->
           Tup([j \in 1..Len(s) |-> IF i = j THEN s[i] ELSE 0], Len(s))],
        Len(s))

\* np.linalg.det for 2 x 2 and 3 x 3, fixed point
Det(M) ==
    IF Len(M) = 2
    THEN RDiv(M[1][1] * M[2][2] - M[1][2] * M[2][1], K)
    ELSE LET c1 == RDiv(M[2][2] * M[3][3] - M[2][3] * M[3][2], K)
             c2 == RDiv(M[2][1] * M[3][3] - M[2][3] * M[3][1], K)
             c3 == RDiv(M[2][1] * M[3][2] - M[2][2] * M[3][1], K)
         IN RDiv(M[1][1] * c1 - M[1][2] * c2 + M[1][3] * c3, K)

\* entrywise |A - B| <= tol
MatClose(A, B, tol) ==
    /\ Len(A) = Len(B)
    /\ \A i \in 1..Len(A) :
         /\ Len(A[i]) = Len(B[i])
         /\ \A j \in 1..Len(A[i]) : Abs(A[i][j] - B[i][j]) <= tol

\* the columns of M are orthonormal (M.T @ M = I within tolerance)
IsOrthonormal(M) ==
    LET cols == Transpose(M)
    IN \A i \in 1..Len(M) : \A j \in i..Len(M) :
          Abs(Dot(cols[i], cols[j]) - (IF i = j THEN K * K ELSE 0))
              <= 2 * Tol * K

\* a proper rotation: orthonormal with determinant +1
IsProperRotation(M) == IsOrthonormal(M) /\ Abs(Det(M) - K) <= Tol

\* not-a-number, the result of 0.0 / 0.0
NaN == -(2 ^ 30)

HasNaN(v) == \E k \in 1..Len(v) : v[k] = NaN

ArrayHasNaN(a) == \E n \in 1..Len(a) : HasNaN(a[n])

\* ------------------------------------------------------------------------
\* Trigonometry on the angle grid (np.sin, np.cos, np.arctan2, np.arcsin)
\* ------------------------------------------------------------------------
\* round(K * sin(a)) for a = 0, 5, ..., 90 degrees
SinTable == << 0, 872, 1736, 2588, 3420, 4226, 5000, 5736, 6428, 7071,
               7660, 8192, 8660, 9063, 9397, 9659, 9848, 9962, 10000 >>

\* the grid angles of one turn, (-180, 180]
Angles == { a \in -175..180 : a % AngleStep = 0 }

Sin(a) == LET r == a % 360
          IN IF r <= 90 THEN SinTable[r \div AngleStep + 1]
             ELSE IF r <= 180 THEN SinTable[(180 - r) \div AngleStep + 1]
             ELSE IF r <= 270 THEN -SinTable[(r - 180) \div AngleStep + 1]
             ELSE -SinTable[(360 - r) \div AngleStep + 1]

Cos(a) == Sin(a + 90)

\* np.arctan2(y, x) in degrees, rounded to the grid (0 for y = x = 0)
Atan2(y, x) ==
    IF y = 0 /\ x = 0 THEN 0
    ELSE CHOOSE a \in Angles :
           \A b \in Angles :
              \/ x * Cos(a) + y * Sin(a) > x * Cos(b) + y * Sin(b)
              \/ /\ x * Cos(a) + y * Sin(a) = x * Cos(b) + y * Sin(b)
                 /\ a >= b

\* np.arcsin(s) in degrees, rounded to the grid, in [-90, 90]
Asin(s) ==
    CHOOSE a \in { c \in Angles : -90 <= c /\ c <= 90 } :
        \A b \in { c \in Angles : -90 <= c /\ c <= 90 } :
            \/ Abs(Sin(a) - s) < Abs(Sin(b) - s)
            \/ Abs(Sin(a) - s) = Abs(Sin(b) - s) /\ a >= b

\* ------------------------------------------------------------------------
\* scipy.spatial.transform.Rotation (a Rotation is held as its matrix)
\* ------------------------------------------------------------------------
Rx(a) == << << K, 0, 0 >>, << 0, Cos(a), -Sin(a) >>, << 0, Sin(a), Cos(a) >> >>
Ry(a) == << << Cos(a), 0, Sin(a) >>, << 0, K, 0 >>, << -Sin(a), 0, Cos(a) >> >>
Rz(a) == << << Cos(a), -Sin(a), 0 >>, << Sin(a), Cos(a), 0 >>, << 0, 0, K >> >>

\* R.from_euler(seq, angles, degrees=True) for the extrinsic sequences used:
\* 'xyz' rotates about x, then y, then z of the fixed frame; 'z' about z
from_euler(seq, angles) ==
    IF seq = "z" THEN Rz(angles[1])
    ELSE MatMul(Rz(angles[3]), MatMul(Ry(angles[2]), Rx(angles[1])))

\* Rotation.apply(vectors): the rotation applied to every row of the array
apply(rot, vectors) ==
    Tup([n \in 1..Len(vectors) |-> MatVec(rot, vectors[n])], Len(vectors))

\* Rotation.as_euler(seq, degrees=True) for the extrinsic sequences 'xyz'
\* and 'zxy'; at gimbal lock the third angle is set to zero
as_euler(rot, seq) ==
    IF seq = "xyz"
    THEN IF Abs(rot[3][1]) >= K - Tol
         THEN IF rot[3][1] < 0
              THEN << Atan2(rot[1][2], rot[2][2]), 90, 0 >>
              ELSE << Atan2(-rot[1][2], rot[2][2]), -90, 0 >>
         ELSE << Atan2(rot[3][2], rot[3][3]),
                 Asin(-rot[3][1]),
                 Atan2(rot[2][1], rot[1][1]) >>
    ELSE IF Abs(rot[2][3]) >= K - Tol
         THEN << Atan2(-rot[1][2], rot[1][1]),
                 IF rot[2][3] < 0 THEN 90 ELSE -90, 0 >>
         ELSE << Atan2(rot[2][1], rot[2][2]),
                 Asin(-rot[2][3]),
                 Atan2(rot[1][3], rot[3][3]) >>

\* the numerators of the quaternion (x, y, z, w) that from_matrix reads off
\* a 3 x 3 matrix (largest of the diagonal entries and the trace as pivot)
QuatOfMatrix(M) ==
    LET tr == M[1][1] + M[2][2] + M[3][3]
        dec == << M[1][1], M[2][2], M[3][3], tr >>
        choice == CHOOSE c \in 1..4 :
                     /\ \A d \in 1..4 : dec[c] >= dec[d]
                     /\ \A d \in 1..(c - 1) : dec[d] < dec[c]
        i == choice
        j == (i % 3) + 1
        k == (j % 3) + 1
    IN IF choice = 4
       THEN << M[3][2] - M[2][3], M[1][3] - M[3][1], M[2][1] - M[1][2], K + tr >>
       ELSE Tup([c \in 1..4 |->
                   IF c = i THEN K - tr + 2 * M[i][i]
                   ELSE IF c = j THEN M[j][i] + M[i][j]
                   ELSE IF c = k THEN M[k][i] + M[i][k]
                   ELSE M[k][j] - M[j][k]], 4)

\* the quaternion q scaled to unit length (fixed point)
NormalizeQuat(q) ==
    LET qs == Tup([c \in 1..4 |-> RDiv(q[c], 10)], 4)
        n2 == SumTo([c \in 1..4 |-> qs[c] * qs[c]], 4)
        r == ISqrt(n2)
        n == IF n2 - r * r > r THEN r + 1 ELSE r
    IN Tup([c \in 1..4 |-> RDiv(qs[c] * K, n)], 4)

\* as_matrix() with the sign of the scalar part w taken the other way
\* (the scalar-first / scalar-last or conjugate mix-up): the inverse rotation
MatrixOfQuatConjugate(q) ==
    LET x == q[1]
        y == q[2]
        z == q[3]
        w == -q[4]
    IN << << RDiv(w * w + x * x - y * y - z * z, K),
             RDiv(2 * (x * y - z * w), K),
             RDiv(2 * (x * z + y * w), K) >>,
          << RDiv(2 * (x * y + z * w), K),
             RDiv(w * w - x * x + y * y - z * z, K),
             RDiv(2 * (y * z - x * w), K) >>,
          << RDiv(2 * (x * z - y * w), K),
             RDiv(2 * (y * z + x * w), K),
             RDiv(w * w - x * x - y * y + z * z, K) >> >>

\* Rotation.as_matrix() of the unit quaternion (x, y, z, w)
MatrixOfQuat(q) ==
    LET x == q[1]
        y == q[2]
        z == q[3]
        w == q[4]
    IN << << RDiv(w * w + x * x - y * y - z * z, K),
             RDiv(2 * (x * y - z * w), K),
             RDiv(2 * (x * z + y * w), K) >>,
          << RDiv(2 * (x * y + z * w), K),
             RDiv(w * w - x * x + y * y - z * z, K),
             RDiv(2 * (y * z - x * w), K) >>,
          << RDiv(2 * (x * z - y * w), K),
             RDiv(2 * (y * z + x * w), K),
             RDiv(w * w - x * x - y * y + z * z, K) >> >>

\* R.from_matrix(M): the outcomes [err, rot] the installed scipy can give.
\* Every release rejects a matrix that is not 3 x 3.  For a matrix with a
\* non-positive determinant a release either raises ValueError or converts
\* the matrix entries to a quaternion all the same and normalizes it.
from_matrix(M) ==
    IF Len(M) # 3
    THEN { [err |-> "ValueError", rot |-> Undefined] }
    ELSE IF Det(M) > 0
    THEN { [err |-> "none", rot |-> MatrixOfQuat(NormalizeQuat(QuatOfMatrix(M)))] }
    ELSE { [err |-> "ValueError", rot |-> Undefined],
           [err |-> "none", rot |-> MatrixOfQuat(NormalizeQuat(QuatOfMatrix(M)))] }

\* ------------------------------------------------------------------------
\* Catalog construction
\* ------------------------------------------------------------------------
\* np.linalg.norm(v), rounded to the nearest fixed-point value
Norm(v) == LET n2 == Dot(v, v)
               r == ISqrt(n2)
           IN IF n2 - r * r > r THEN r + 1 ELSE r

\* catalog / np.linalg.norm(catalog, axis=1, keepdims=True), one row:
\* a zero row divides 0.0 by 0.0 and becomes NaN in every component
NormalizeRow(v) ==
    IF Norm(v) = 0 THEN Tup([k \in 1..Len(v) |-> NaN], Len(v))
    ELSE Tup([k \in 1..Len(v) |-> RDiv(v[k] * K, Norm(v))], Len(v))

NormalizeRows(a) == Tup([n \in 1..Len(a) |-> NormalizeRow(a[n])], Len(a))

\* radec_to_unitvec(ra_deg, dec_deg) for arrays of right ascensions and
\* declinations: one row (x, y, z) per star
radec_to_unitvec(ra_deg, dec_deg) ==
    Tup([n \in 1..Len(ra_deg) |->
           << RDiv(Cos(dec_deg[n]) * Cos(ra_deg[n]), K),
              RDiv(Cos(dec_deg[n]) * Sin(ra_deg[n]), K),
              Sin(dec_deg[n]) >> ], Len(ra_deg))

\* ------------------------------------------------------------------------
\* np.linalg.svd
\* ------------------------------------------------------------------------
\* catalog.T @ observed: the operands of the product exchanged
CrossCovarianceSwapped(obs, cat) ==
    IF ArrayHasNaN(obs) \/ ArrayHasNaN(cat)
    THEN Tup([i \in 1..Len(cat[1]) |->
                Tup([j \in 1..Len(obs[1]) |-> NaN], Len(obs[1]))],
             Len(cat[1]))
    ELSE Tup([i \in 1..Len(cat[1]) |->
                Tup([j \in 1..Len(obs[1]) |->
                       RDiv(SumTo([n \in 1..Len(obs) |->
                                     cat[n][i] * obs[n][j]], Len(obs)), K)],
                    Len(obs[1]))], Len(cat[1]))

\* observed[:-1].T @ catalog[:-1]: the last correspondence left out
CrossCovarianceShort(obs, cat) ==
    IF ArrayHasNaN(obs) \/ ArrayHasNaN(cat)
    THEN Tup([i \in 1..Len(obs[1]) |->
                Tup([j \in 1..Len(cat[1]) |-> NaN], Len(cat[1]))],
             Len(obs[1]))
    ELSE Tup([i \in 1..Len(obs[1]) |->
                Tup([j \in 1..Len(cat[1]) |->
                       RDiv(SumTo([n \in 1..Len(obs) |->
                                     obs[n][i] * cat[n][j]], Len(obs) - 1), K)],
                    Len(cat[1]))], Len(obs[1]))

\* H = observed.T @ catalog for arrays with the same number of rows
CrossCovariance(obs, cat) ==
    IF ArrayHasNaN(obs) \/ ArrayHasNaN(cat)
    THEN Tup([i \in 1..Len(obs[1]) |->
                Tup([j \in 1..Len(cat[1]) |-> NaN], Len(cat[1]))],
             Len(obs[1]))
    ELSE Tup([i \in 1..Len(obs[1]) |->
                Tup([j \in 1..Len(cat[1]) |->
                       RDiv(SumTo([n \in 1..Len(obs) |->
                                     obs[n][i] * cat[n][j]], Len(obs)), K)],
                    Len(cat[1]))], Len(obs[1]))

\* Euler angles (degrees, 'xyz') of the simulated attitudes; the notebook
\* uses [10, 5, 25]
TrueAngles == { << 10, 5, 25 >>, << 0, 0, 0 >>, << 0, 0, 90 >>, << 90, 0, 0 >> }

AxisVectors(n) == { Tup([i \in 1..n |-> IF i = a THEN s * K ELSE 0], n) :
                      a \in 1..n, s \in {-1, 1} }

\* unit vectors from which svd may complete a basis of a null space
UnitCands2 == AxisVectors(2)
UnitCands3 == AxisVectors(3) \cup
              { Tup([i \in 1..3 |-> s * from_euler("xyz", a)[i][j]], 3) :
                  a \in TrueAngles, j \in 1..3, s \in {-1, 1} }
UnitCands(n) == IF n = 2 THEN UnitCands2 ELSE UnitCands3

IsZero(v) == \A k \in 1..Len(v) : v[k] = 0

\* the length of a column of H (entries of several units), rounded
ColumnNorm(c) ==
    10 * Norm(Tup([k \in 1..Len(c) |-> RDiv(c[k], 10)], Len(c)))

\* the lengths s are in descending order
Descending(s) == \A j \in 1..(Len(s) - 1) : s[j] >= s[j + 1]

\* the permutations of 1..n that put the lengths norms in descending order
SortingPerms(norms) ==
    { p \in [1..Len(norms) -> 1..Len(norms)] :
        /\ \A a, b \in 1..Len(norms) : p[a] = p[b] => a = b
        /\ \A j \in 1..(Len(norms) - 1) : norms[p[j]] >= norms[p[j + 1]] }

\* the left factor: column j is column p[j] of H scaled to unit length; a
\* null column is completed by f
LeftFactor(H, norms, p, f) ==
    Tup([i \in 1..Len(H) |->
           Tup([j \in 1..Len(H) |->
                  IF norms[p[j]] = 0 THEN f[j][i]
                  ELSE RDiv(H[i][p[j]] * K, norms[p[j]])],
               Len(H))], Len(H))

\* the right factor transposed: row j is the unit row of axis p[j]
RightFactorT(n, p) ==
    Tup([j \in 1..n |-> Tup([i \in 1..n |-> IF p[j] = i THEN K ELSE 0], n)], n)

\* decompositions H = U @ diag(S) @ Vt whose right factor is a permutation:
\* U holds the columns of H, sorted by length and normalized.  Flipping the
\* sign of a pair (column j of U, row j of Vt) gives another decomposition
\* with the same Vt.T @ U.T; the one with non-negative Vt stands for both.
\* The columns of U that belong to a zero singular value are free.
SVDByColumns(H) ==
    LET n == Len(H)
        norms == Tup([j \in 1..n |-> ColumnNorm(Column(H, j))], n)
        S(p) == Tup([j \in 1..n |-> norms[p[j]]], n)
        null(p) == { j \in 1..n : norms[p[j]] = 0 }
    IN UNION { { << LeftFactor(H, norms, p, f), S(p), RightFactorT(n, p) >> :
                   f \in { g \in [null(p) -> UnitCands(n)] :
                             IsOrthonormal(LeftFactor(H, norms, p, g)) } }
             : p \in SortingPerms(norms) }

\* np.linalg.svd(H): triples (U, S, Vt) with U and Vt orthogonal, S
\* non-negative and descending, and U @ diag(S) @ Vt = H.  One factor of
\* every triple is a permutation; the call may return any of them.
svd(H) ==
    LET byColumns == SVDByColumns(H)
    IN IF byColumns # {} THEN byColumns
       ELSE { << Transpose(t[3]), t[2], Transpose(t[1]) >> :
                t \in SVDByColumns(Transpose(H)) }

\* ------------------------------------------------------------------------
\* Inputs of the notebooks
\* ------------------------------------------------------------------------
\* vector dimensions: the 2D tutorial and the 3D Gaia notebook
Dims == {2, 3}

\* the literal catalog of the 2D tutorial: (1,0), (0.5, sqrt(3)/2),
\* (-0.5, sqrt(3)/2), (-1,0), (0,-1)
TutorialCatalog == << << K, 0 >>, << 5000, 8660 >>, << -5000, 8660 >>,
                      << -K, 0 >>, << 0, -K >> >>

\* rotation angle of the 2D tutorial, degrees
theta_deg == 30

\* arrays of 1..MaxStars rows over the set of rows rows
Arrays(rows) == UNION { [1..n -> rows] : n \in 1..MaxStars }

\* raw 2D catalog rows before normalization
RawRows2D == { << K, 0 >>, << 0, K >>, << -K, 0 >>,
               << MaxNorm * K, 0 >>, << 0, 0 >> }

\* (ra, dec) of the stars a catalog query can return, degrees
RaDecRows == { << 0, 0 >>, << 90, 0 >>, << 180, 0 >>, << 0, 90 >> }

\* (ra, dec) of a query result of five stars, no two in the same direction
FiveStars == << << 0, 0 >>, << 90, 0 >>, << 180, 0 >>, << 270, 0 >>, << 0, 90 >> >>

\* every row of the array lies on a coordinate axis or is NaN
AxisAligned(a) ==
    \A n \in 1..Len(a) :
        \/ HasNaN(a[n])
        \/ Cardinality({ k \in 1..Len(a[n]) : a[n][k] # 0 }) <= 1

Mirror(n) ==
    Tup([i \in 1..n |->
           Tup([j \in 1..n |-> IF i # j THEN 0 ELSE IF i = n THEN -K ELSE K],
               n)], n)

\* the true attitude of a measured observation: the identity, or a mirror
\* image (a tracker read out with one axis flipped)
MeasureMaps(n) == { Identity(n), Mirror(n) }

\* how one row of a measurement can be off
Disturbances == { "none", "zero", "scale", "drop", "extra" }

\* a measured row: the true direction, or NaN where the catalog row is NaN
MeasureRow(G, v) == IF HasNaN(v) THEN v ELSE MatVec(G, v)

\* the measurement of catalog cat under attitude G with disturbance d of row r
Measurement(cat, G, d, r) ==
    LET base == Tup([n \in 1..Len(cat) |-> MeasureRow(G, cat[n])], Len(cat))
    IN IF d = "zero"
       THEN [base EXCEPT ![r] = Tup([k \in 1..Len(base[r]) |-> 0], Len(base[r]))]
       ELSE IF d = "scale"
       THEN [base EXCEPT ![r] = Tup([k \in 1..Len(base[r]) |->
                                       IF base[r][k] = NaN THEN NaN
                                       ELSE MaxNorm * base[r][k]], Len(base[r]))]
       ELSE IF d = "drop" THEN SubSeq(base, 1, Len(base) - 1)
       ELSE IF d = "extra" THEN Append(base, base[r])
       ELSE base

\* ------------------------------------------------------------------------
\* State: the names of a notebook session and the frame of solve_attitude
\* ------------------------------------------------------------------------
VARIABLES
    N,          \* dimension of the vectors of this session (2 or 3)
    catalog,    \* catalog / catalog_vecs: array of reference directions
    observed,   \* observed / observed_vecs: array of measured directions
    true_rot,   \* rotation / true_rot: the simulated attitude
    frame,      \* parameters and locals of the running solve_attitude call
    R_est,      \* the Rotation returned by solve_attitude
    euler,      \* R_est.as_euler(...), degrees
    aligned,    \* R_est.apply(observed)
    err,        \* the exception each cell ended with, "none" if it completed
    pc,         \* the next cell or statement to run
    calls,      \* the solve_attitude calls of concurrent threads, if any
    widget,     \* the parallax notebook: sliders, Output widget, callbacks
    mission     \* the mission-design notebook: kernel names, sweep, queries

vars == << N, catalog, observed, true_rot, frame, R_est, euler, aligned, err, pc,
           calls, widget, mission >>

\* no call of solve_attitude is running
NoFrame == [observed |-> Undefined, catalog |-> Undefined, H |-> Undefined,
            U |-> Undefined, S |-> Undefined, Vt |-> Undefined,
            R_est |-> Undefined]

NoErr == [observe |-> "none", solve |-> "none", aligned |-> "none"]

\* no thread calls solve_attitude: the session is a single-threaded notebook
NoCalls == << >>

\* the parallax notebook is not open
NoWidget == << >>

\* the mission-design notebook is not open
NoMission == << >>

Init ==
    /\ calls = NoCalls
    /\ widget = NoWidget
    /\ mission = NoMission
    /\ N \in Dims
    /\ catalog = Undefined
    /\ observed = Undefined
    /\ true_rot = Undefined
    /\ frame = NoFrame
    /\ R_est = Undefined
    /\ euler = Undefined
    /\ aligned = Undefined
    /\ err = NoErr
    /\ pc = "cell_catalog"

\* 2D tutorial, first cell: the catalog literal (or another array of raw
\* rows) divided by its row norms
CatalogCell2D ==
    /\ pc = "cell_catalog"
    /\ N = 2
    /\ \E raw \in Arrays(RawRows2D) \cup {TutorialCatalog} :
          catalog' = NormalizeRows(Tup(raw, Len(raw)))
    /\ pc' = "cell_observe"
    /\ UNCHANGED << widget, mission, calls, N, observed, true_rot, frame, R_est, euler, aligned, err >>

\* 3D notebook: catalog_vecs = radec_to_unitvec(ra, dec) of the queried stars
CatalogCell3D ==
    /\ pc = "cell_catalog"
    /\ N = 3
    /\ \E stars \in Arrays(RaDecRows) \cup {FiveStars} :
          catalog' = radec_to_unitvec(Tup([n \in 1..Len(stars) |-> stars[n][1]],
                                          Len(stars)),
                                      Tup([n \in 1..Len(stars) |-> stars[n][2]],
                                          Len(stars)))
    /\ pc' = "cell_observe"
    /\ UNCHANGED << widget, mission, calls, N, observed, true_rot, frame, R_est, euler, aligned, err >>

\* the simulation cell: a Rotation from Euler angles applied to the catalog.
\* Rotation.apply accepts arrays of shape (P, 3) only and raises ValueError
\* for any other shape, before observed is bound.
SimulateCell ==
    /\ pc = "cell_observe"
    /\ \E angles \in (IF N = 2 THEN { << theta_deg >> } ELSE TrueAngles) :
          true_rot' = from_euler(IF N = 2 THEN "z" ELSE "xyz", angles)
    /\ IF Len(catalog[1]) # 3
       THEN /\ err' = [err EXCEPT !.observe = "ValueError"]
            /\ UNCHANGED observed
       ELSE /\ observed' = apply(true_rot', catalog)
            /\ UNCHANGED err
    /\ pc' = "cell_solve"
    /\ UNCHANGED << widget, mission, calls, N, catalog, frame, R_est, euler, aligned >>

\* observed bound to a star-tracker measurement of the catalog instead
MeasureCell ==
    /\ pc = "cell_observe"
    /\ AxisAligned(catalog)
    /\ \E G \in MeasureMaps(N), d \in Disturbances, r \in 1..Len(catalog) :
          /\ d = "none" => r = 1
          /\ d = "drop" => r = 1 /\ Len(catalog) > 1
          /\ d = "extra" => r = 1
          /\ d = "zero" => Len(catalog) > 1
          /\ observed' = Measurement(catalog, G, d, r)
    /\ pc' = "cell_solve"
    /\ UNCHANGED << widget, mission, calls, N, catalog, true_rot, frame, R_est, euler, aligned, err >>

\* ------------------------------------------------------------------------
\* The solve cell: R_est = solve_attitude(observed, catalog), then as_euler
\* ------------------------------------------------------------------------
\* the cell evaluates its arguments and enters solve_attitude; an unbound
\* name raises NameError and ends the cell
SolveCell ==
    /\ pc = "cell_solve"
    /\ IF observed = Undefined \/ catalog = Undefined
       THEN /\ err' = [err EXCEPT !.solve = "NameError"]
            /\ pc' = "cell_aligned"
            /\ UNCHANGED frame
       ELSE /\ frame' = [NoFrame EXCEPT !.observed = observed,
                                        !.catalog = catalog]
            /\ pc' = "solve_H"
            /\ UNCHANGED err
    /\ UNCHANGED << widget, mission, calls, N, catalog, observed, true_rot, R_est, euler, aligned >>

\* as Raise, inside a try/except that drops the last correspondence and
\* runs the body again while more than one correspondence is left
RaiseOrRetry(e) ==
    IF Len(frame.observed) > 1 /\ Len(frame.catalog) > 1
    THEN /\ frame' = [NoFrame EXCEPT
                        !.observed = SubSeq(frame.observed, 1,
                                            Len(frame.observed) - 1),
                        !.catalog = SubSeq(frame.catalog, 1,
                                           Len(frame.catalog) - 1)]
         /\ pc' = "solve_H"
         /\ UNCHANGED << widget, mission, calls, N, catalog, observed, true_rot, R_est, euler,
                         aligned, err >>
    ELSE /\ err' = [err EXCEPT !.solve = e]
         /\ frame' = NoFrame
         /\ pc' = "cell_aligned"
         /\ UNCHANGED << widget, mission, calls, N, catalog, observed, true_rot, R_est, euler,
                         aligned >>

\* an exception leaves solve_attitude: the frame is dropped, the rest of the
\* cell is skipped and R_est stays as it was
Raise(e) ==
    /\ err' = [err EXCEPT !.solve = e]
    /\ frame' = NoFrame
    /\ pc' = "cell_aligned"
    /\ UNCHANGED << widget, mission, calls, N, catalog, observed, true_rot, R_est, euler, aligned >>

\* as Solve_H, after observed /= np.linalg.norm(observed, axis=1,
\* keepdims=True): the caller's array normalized in place
Solve_H_InPlace ==
    /\ pc = "solve_H"
    /\ Len(frame.observed) = Len(frame.catalog)
    /\ observed' = NormalizeRows(frame.observed)
    /\ frame' = [frame EXCEPT
                   !.observed = observed',
                   !.H = CrossCovariance(observed', frame.catalog)]
    /\ pc' = "solve_svd"
    /\ UNCHANGED << widget, mission, calls, N, catalog, true_rot, R_est, euler, aligned, err >>

\* H = observed.T @ catalog; matmul raises ValueError when the two arrays
\* do not have the same number of rows
Solve_H ==
    /\ pc = "solve_H"
    /\ IF Len(frame.observed) # Len(frame.catalog)
       THEN Raise("ValueError")
       ELSE /\ frame' = [frame EXCEPT
                           !.H = CrossCovariance(frame.observed, frame.catalog)]
            /\ pc' = "solve_svd"
            /\ UNCHANGED << widget, mission, calls, N, catalog, observed, true_rot, R_est, euler,
                            aligned, err >>

\* U, _, Vt = np.linalg.svd(H); LinAlgError when H holds NaN
Solve_SVD ==
    /\ pc = "solve_svd"
    /\ IF ArrayHasNaN(frame.H)
       THEN Raise("LinAlgError")
       ELSE /\ \E t \in svd(frame.H) :
                  frame' = [frame EXCEPT !.U = t[1], !.S = t[2], !.Vt = t[3]]
            /\ pc' = "solve_R"
            /\ UNCHANGED << widget, mission, calls, N, catalog, observed, true_rot, R_est, euler,
                            aligned, err >>

\* R_est = Vt.T @ U.T
Solve_R ==
    /\ pc = "solve_R"
    /\ frame' = [frame EXCEPT
                   !.R_est = MatMul(Transpose(frame.Vt), Transpose(frame.U))]
    /\ pc' = "solve_return"
    /\ UNCHANGED << widget, mission, calls, N, catalog, observed, true_rot, R_est, euler, aligned, err >>

\* return R.from_matrix(R_est), bound to R_est of the notebook
Solve_Return ==
    /\ pc = "solve_return"
    /\ \E out \in from_matrix(frame.R_est) :
          IF out.err # "none"
          THEN Raise(out.err)
          ELSE /\ R_est' = out.rot
               /\ frame' = NoFrame
               /\ pc' = "cell_euler"
               /\ UNCHANGED << widget, mission, calls, N, catalog, observed, true_rot, euler, aligned,
                               err >>

\* R_est.as_euler('xyz', degrees=True) in the 3D notebook,
\* R_est.as_euler('zxy', degrees=True) in the 2D tutorial
EulerStep ==
    /\ pc = "cell_euler"
    /\ euler' = as_euler(R_est, IF N = 2 THEN "zxy" ELSE "xyz")
    /\ pc' = "cell_aligned"
    /\ UNCHANGED << widget, mission, calls, N, catalog, observed, true_rot, frame, R_est, aligned, err >>

\* aligned = R_est.apply(observed)
AlignedCell ==
    /\ pc = "cell_aligned"
    /\ IF R_est = Undefined \/ observed = Undefined
       THEN /\ err' = [err EXCEPT !.aligned = "NameError"]
            /\ UNCHANGED aligned
       ELSE IF Len(observed[1]) # 3
       THEN /\ err' = [err EXCEPT !.aligned = "ValueError"]
            /\ UNCHANGED aligned
       ELSE /\ aligned' = apply(R_est, observed)
            /\ UNCHANGED err
    /\ pc' = "done"
    /\ UNCHANGED << widget, mission, calls, N, catalog, observed, true_rot, frame, R_est, euler >>

Next ==
    \/ CatalogCell2D
    \/ CatalogCell3D
    \/ SimulateCell
    \/ MeasureCell
    \/ SolveCell
    \/ Solve_H
    \/ Solve_SVD
    \/ Solve_R
    \/ Solve_Return
    \/ EulerStep
    \/ AlignedCell

Spec == Init /\ [][Next]_vars

\* ------------------------------------------------------------------------
\* Consistency of the model of np.linalg.svd
\* ------------------------------------------------------------------------
\* svd returned orthogonal factors that multiply back to H
SvdContract ==
    pc = "solve_R" =>
        /\ IsOrthonormal(frame.U)
        /\ IsOrthonormal(frame.Vt)
        /\ Descending(frame.S)
        /\ MatClose(MatMul(MatMul(frame.U, Diag(frame.S)), frame.Vt),
                    frame.H, Tol)

\* svd has a result for every cross-covariance matrix the model builds
SvdTotal == (pc = "solve_svd" /\ ~ArrayHasNaN(frame.H)) => svd(frame.H) # {}

\* ------------------------------------------------------------------------
\* Vocabulary of the claims
\* ------------------------------------------------------------------------
\* solve_attitude was entered and has ended, by return or by an exception
SolveEnded ==
    /\ pc \in {"cell_euler", "cell_aligned", "done"}
    /\ err.solve # "NameError"

\* solve_attitude returned a Rotation
SolveReturned == SolveEnded /\ err.solve = "none"

\* a unit vector (magnitude 1 within tolerance; NaN is none)
IsUnit(v) == ~HasNaN(v) /\ Abs(Dot(v, v) - K * K) <= 2 * Tol * K

\* a vector whose direction is undefined: magnitude zero, or NaN
NoDirection(v) == HasNaN(v) \/ IsZero(v)

\* all rows of the array of unit vectors lie on one line through the origin
Collinear(a) ==
    \A m, n \in 1..Len(a) :
        IsUnit(a[m]) /\ IsUnit(a[n]) => Abs(Dot(a[m], a[n])) >= K * K - 2 * Tol * K

\* a correspondence set the validator of the specification accepts as it is:
\* as many observed as reference vectors, at least N of them, all of unit
\* length, the reference vectors not collinear
ValidSet(obs, cat) ==
    /\ obs # Undefined
    /\ cat # Undefined
    /\ Len(obs) = Len(cat)
    /\ Len(obs) >= Len(cat[1])
    /\ \A n \in 1..Len(obs) : IsUnit(obs[n]) /\ IsUnit(cat[n])
    /\ ~Collinear(cat)

\* a correspondence set the validator of the specification rejects
InvalidSet(obs, cat) ==
    \/ Len(obs) # Len(cat)
    \/ Len(obs) < Len(cat[1])
    \/ \E n \in 1..Len(obs) : NoDirection(obs[n])
    \/ \E n \in 1..Len(cat) : NoDirection(cat[n])
    \/ Collinear(cat)

\* observed is the catalog rotated by true_rot (noiseless input)
Simulated ==
    /\ true_rot # Undefined
    /\ observed # Undefined
    /\ observed = apply(true_rot, catalog)

Clamp(x, lo, hi) == IF x < lo THEN lo ELSE IF x > hi THEN hi ELSE x

\* np.arccos(c) in degrees, rounded to the grid
Acos(c) == 90 - Asin(c)

\* the angular residual of one correspondence: the angle between the
\* rotated observed vector a and its reference vector c
residual(a, c) == Acos(Clamp(RDiv(Dot(a, c), K), -K, K))

\* the aggregate residual: root of the mean of the squared residuals
rms_residual(al, cat) ==
    ISqrt(SumTo([n \in 1..Len(al) |-> residual(al[n], cat[n]) * residual(al[n], cat[n])],
                Len(al)) \div Len(al))

\* ------------------------------------------------------------------------
\* Claims
\* ------------------------------------------------------------------------
\* C1: for every valid correspondence set the matrix solve_attitude returns
\* is a proper rotation (orthonormal, determinant +1, never -1), also when
\* the product of the SVD factors is a reflection: the matrix the return
\* value is built from is a proper rotation, and the call returns one.
C1_ProperRotation ==
    ValidSet(observed, catalog) =>
        /\ pc = "solve_return" => IsProperRotation(frame.R_est)
        /\ SolveEnded => err.solve = "none" /\ IsProperRotation(R_est)

\* C2: round trip. For a proper rotation R0 and a catalog of at least three
\* non-collinear unit vectors, with observed = R0 applied to the catalog,
\* solve_attitude returns R0 itself within tolerance, not its inverse.
C2_RoundTrip ==
    (Simulated /\ Len(catalog) >= 3 /\ ~Collinear(catalog) /\ SolveEnded) =>
        /\ err.solve = "none"
        /\ MatClose(R_est, true_rot, Tol)

C4_IdentityCase ==
    (ValidSet(observed, catalog) /\ observed = catalog /\ SolveEnded) =>
        /\ err.solve = "none"
        /\ MatClose(R_est, Identity(3), Tol)
        /\ pc = "done" =>
              /\ aligned # Undefined
              /\ \A n \in 1..Len(catalog) : residual(aligned[n], catalog[n]) = 0

\* C5: the 2D tutorial run end to end (its five catalog vectors, normalized,
\* true rotation 30 degrees about z) completes the solve step and reports an
\* estimated rotation angle of +30 degrees.
C5_Tutorial2D ==
    (/\ N = 2
     /\ catalog = NormalizeRows(TutorialCatalog)
     /\ true_rot = from_euler("z", << theta_deg >>)
     /\ pc = "done") =>
        /\ err.solve = "none"
        /\ euler # Undefined
        /\ euler[1] = theta_deg

\* C6: the 3D scenario. A catalog of at least five non-collinear unit
\* vectors rotated by xyz Euler angles (10, 5, 25) degrees: the Euler angles
\* read from the returned rotation are (10, 5, 25) and the RMS residual
\* is zero.
C6_Scenario3D ==
    (/\ N = 3
     /\ Simulated
     /\ true_rot = from_euler("xyz", << 10, 5, 25 >>)
     /\ Len(catalog) >= 5
     /\ ~Collinear(catalog)
     /\ pc = "done") =>
        /\ err.solve = "none"
        /\ euler = << 10, 5, 25 >>
        /\ aligned # Undefined
        /\ rms_residual(aligned, catalog) = 0

\* C7: with fewer than N correspondence pairs, or observed and catalog of
\* different lengths, solve_attitude fails and returns no solution. Any
\* exception is taken for the failure the claim names InvalidInputError.
C7_TooFewOrMismatch ==
    (/\ SolveEnded
     /\ Len(observed) < N \/ Len(observed) # Len(catalog)) =>
        /\ err.solve # "none"
        /\ R_est = Undefined

\* C8: when all catalog vectors are collinear (the set being of sufficient
\* size and of unit vectors), solve_attitude fails and returns no rotation.
\* Any exception is taken for the failure the claim names
\* DegenerateGeometryError.
C8_CollinearCatalog ==
    (/\ SolveEnded
     /\ Len(observed) = Len(catalog)
     /\ Len(catalog) >= N
     /\ \A n \in 1..Len(catalog) : IsUnit(catalog[n]) /\ IsUnit(observed[n])
     /\ Collinear(catalog)) =>
        /\ err.solve # "none"
        /\ R_est = Undefined

\* C9: an input vector of zero magnitude makes solve_attitude fail (any
\* exception is taken for InvalidInputError), and no NaN reaches the
\* cross-covariance matrix H.
C9_ZeroVector ==
    /\ frame.H # Undefined => ~ArrayHasNaN(frame.H)
    /\ (/\ SolveEnded
        /\ \E n \in 1..Len(observed) : NoDirection(observed[n])) =>
          /\ err.solve # "none"
          /\ R_est = Undefined

\* C10: validation completes before the cross-covariance matrix is built or
\* the SVD is invoked: on a correspondence set that validation rejects no
\* numerical step has run and no solution is returned.
C10_ValidationFirst ==
    /\ (frame.observed # Undefined /\ InvalidSet(frame.observed, frame.catalog)) =>
          /\ frame.H = Undefined
          /\ frame.U = Undefined
          /\ frame.R_est = Undefined
    /\ (SolveEnded /\ InvalidSet(observed, catalog)) => R_est = Undefined

\* ------------------------------------------------------------------------
\* The value a solve hands back, and the diagnostics the specification names
\* ------------------------------------------------------------------------
\* what solve_attitude returned to the cell: a Rotation and nothing else
solution == IF SolveReturned THEN [rotation |-> R_est] ELSE Undefined

\* threshold of the condition number above which H is ill-conditioned
CondThreshold == 1000

\* the condition number S[1] / S[n] of singular values S exceeds the threshold
IllConditioned(S) == S[Len(S)] * CondThreshold < S[1]

\* the smallest singular value is zero relative to the largest
RankDeficient(S) == S[Len(S)] * K <= Tol * S[1]

\* the diagnostics of sol carry flag f, and it is set
FlagSet(sol, f) == f \in DOMAIN sol /\ sol[f] = TRUE

\* C11: conditioning policy. When the condition number of the
\* cross-covariance matrix of a valid set exceeds the threshold and strict mode was not
\* requested (solve_attitude has no such parameter), the rotation the solve
\* returns carries the warning flag, set; NumericalInstabilityError is
\* raised in strict mode only.
C11_ConditioningPolicy ==
    [][(/\ pc = "solve_return"
        /\ ValidSet(frame.observed, frame.catalog)
        /\ IllConditioned(frame.S)) =>
          /\ err'.solve # "NumericalInstabilityError"
          /\ pc' = "cell_euler" => FlagSet(solution', "warning")]_vars

\* C12: rank-deficient solve. When the smallest singular value of H is zero
\* relative to the largest (two non-collinear pairs of unit vectors in 3D,
\* or any coplanar catalog), the solve still
\* returns a proper rotation and its diagnostics carry the under-determined
\* flag, set.
C12_RankDeficientFlagged ==
    [][(/\ pc = "solve_return"
        /\ \A n \in 1..Len(frame.observed) :
              IsUnit(frame.observed[n]) /\ IsUnit(frame.catalog[n])
        /\ ~Collinear(frame.catalog)
        /\ RankDeficient(frame.S)) =>
          /\ pc' = "cell_euler"
          /\ IsProperRotation(R_est')
          /\ FlagSet(solution', "under_determined")]_vars

\* C13: every solve that returns a rotation also returns a residual report:
\* one angular residual per correspondence, the RMS residual, the degeneracy
\* flag and the condition number.
C13_ResidualReport ==
    SolveReturned =>
        /\ {"residuals", "rms", "degenerate", "condition_number"}
              \subseteq DOMAIN solution
        /\ Len(solution.residuals) = Len(observed)

\* ------------------------------------------------------------------------
\* Concurrent calls: threads that each call solve_attitude on their own
\* arrays.  Parameters and locals live in the frame of the call; the function
\* reads no global other than the modules np and R.
\* ------------------------------------------------------------------------
Threads == {1, 2}

\* np.linalg.svd on one installation: a function of H
svd_of(H) == CHOOSE t \in svd(H) : TRUE

\* R.from_matrix on one installation: b tells whether a matrix that is no
\* rotation is rejected ("raise") or converted ("convert")
from_matrix_of(M, b) ==
    LET outs   == from_matrix(M)
        raised == { o \in outs : o.err # "none" }
        made   == { o \in outs : o.err = "none" }
    IN IF made = {} \/ (b = "raise" /\ raised # {})
       THEN CHOOSE o \in raised : TRUE
       ELSE CHOOSE o \in made : TRUE

\* the frame of a call that has just been entered with arrays obs and cat
NewCall(obs, cat) ==
    [observed |-> obs, catalog |-> cat, H |-> Undefined, U |-> Undefined,
     S |-> Undefined, Vt |-> Undefined, R_est |-> Undefined,
     pc |-> "solve_H", result |-> Undefined, err |-> "none"]

\* the call has returned or raised
Ended(c) == c.pc \in {"returned", "raised"}

\* one statement of solve_attitude in frame c
Statement(c, b) ==
    IF c.pc = "solve_H"
    THEN IF Len(c.observed) # Len(c.catalog)
         THEN [c EXCEPT !.pc = "raised", !.err = "ValueError"]
         ELSE [c EXCEPT !.pc = "solve_svd",
                        !.H = CrossCovariance(c.observed, c.catalog)]
    ELSE IF c.pc = "solve_svd"
    THEN IF ArrayHasNaN(c.H)
         THEN [c EXCEPT !.pc = "raised", !.err = "LinAlgError"]
         ELSE LET t == svd_of(c.H)
              IN [c EXCEPT !.pc = "solve_R", !.U = t[1], !.S = t[2], !.Vt = t[3]]
    ELSE IF c.pc = "solve_R"
    THEN [c EXCEPT !.pc = "solve_return",
                   !.R_est = MatMul(Transpose(c.Vt), Transpose(c.U))]
    ELSE IF c.pc = "solve_return"
    THEN LET out == from_matrix_of(c.R_est, b)
         IN IF out.err # "none"
            THEN [c EXCEPT !.pc = "raised", !.err = out.err]
            ELSE [c EXCEPT !.pc = "returned", !.result = out.rot]
    ELSE c

RECURSIVE RunAlone(_, _)
\* the call run from frame c to its end with no other call around
RunAlone(c, b) == IF Ended(c) THEN c ELSE RunAlone(Statement(c, b), b)

\* the arrays the threads call solve_attitude with
E3 == << << K, 0, 0 >>, << 0, K, 0 >>, << 0, 0, K >> >>
CallInputs ==
    { << apply(from_euler("xyz", << 0, 0, 90 >>), E3), E3 >>,
      << apply(from_euler("xyz", << 10, 5, 25 >>), E3), E3 >>,
      << SubSeq(E3, 1, 2), SubSeq(E3, 1, 2) >>,
      << SubSeq(E3, 1, 1), E3 >>,
      << << << K, 0 >>, << 0, K >> >>, << << K, 0 >>, << 0, K >> >> >>,
      << << << NaN, NaN >> >>, << << NaN, NaN >> >> >> }

\* the notebook session itself is idle while the threads run
SessionIdle ==
    /\ N = 3
    /\ catalog = Undefined
    /\ observed = Undefined
    /\ true_rot = Undefined
    /\ frame = NoFrame
    /\ R_est = Undefined
    /\ euler = Undefined
    /\ aligned = Undefined
    /\ err = NoErr
    /\ pc = "threads"

InitCalls ==
    /\ SessionIdle
    /\ widget = NoWidget
    /\ mission = NoMission
    /\ \E b \in {"raise", "convert"}, in \in [Threads -> CallInputs] :
          calls = [build |-> b,
                   thread |-> [t \in Threads |-> NewCall(in[t][1], in[t][2])]]

\* as Run, with H a global of the module instead of a local of the call:
\* the H one call computes is the H every running call reads next
RunWithGlobalH(t) ==
    /\ LET c == Statement(calls.thread[t], calls.build)
       IN calls' = [calls EXCEPT !.thread =
                      [u \in Threads |->
                         IF u = t THEN c
                         ELSE IF /\ calls.thread[t].pc = "solve_H"
                                 /\ calls.thread[u].pc = "solve_svd"
                         THEN [calls.thread[u] EXCEPT !.H = c.H]
                         ELSE calls.thread[u]]]
    /\ UNCHANGED << widget, mission, N, catalog, observed, true_rot, frame,
                    R_est, euler, aligned, err, pc >>

\* thread t runs the next statement of its call, in its own frame
Run(t) ==
    /\ calls' = [calls EXCEPT !.thread[t] = Statement(@, calls.build)]
    /\ UNCHANGED << widget, mission, N, catalog, observed, true_rot, frame,
                    R_est, euler, aligned, err, pc >>

\* H = observed.T @ catalog, in some thread
Call_H ==
    \E t \in Threads :
        /\ calls.thread[t].pc = "solve_H"
        /\ Run(t)

\* U, _, Vt = np.linalg.svd(H), in some thread
Call_SVD ==
    \E t \in Threads :
        /\ calls.thread[t].pc = "solve_svd"
        /\ Run(t)

\* R_est = Vt.T @ U.T, in some thread
Call_R ==
    \E t \in Threads :
        /\ calls.thread[t].pc = "solve_R"
        /\ Run(t)

\* return R.from_matrix(R_est), in some thread
Call_Return ==
    \E t \in Threads :
        /\ calls.thread[t].pc = "solve_return"
        /\ Run(t)

NextCalls ==
    \/ Call_H
    \/ Call_SVD
    \/ Call_R
    \/ Call_Return

SpecCalls == InitCalls /\ [][NextCalls]_vars

\* C14: solve calls are stateless and independent. In every interleaving of
\* the calls of two threads, each call is at every moment where it is when
\* run alone on its arrays, so it ends with the result it ends with alone,
\* and two calls on the same arrays end with the same result.
C14_Independent ==
    /\ \A t \in Threads :
          LET c == calls.thread[t]
              alone == RunAlone(NewCall(c.observed, c.catalog), calls.build)
          IN /\ Ended(c) => c = alone
             /\ c.H # Undefined => c.H = CrossCovariance(c.observed, c.catalog)
             /\ c.R_est # Undefined => c.R_est = MatMul(Transpose(c.Vt), Transpose(c.U))
    /\ \A t, u \in Threads :
          LET c == calls.thread[t]
              d == calls.thread[u]
          IN (/\ Ended(c) /\ Ended(d)
              /\ c.observed = d.observed /\ c.catalog = d.catalog) =>
                 (c.result = d.result /\ c.err = d.err)

\* two calls on different arrays have both ended, one with a rotation and
\* one with an exception
C14_Witness ==
    /\ calls.thread[1].pc = "returned"
    /\ calls.thread[2].pc = "raised"
    /\ calls.thread[1].observed # calls.thread[2].observed

\* ------------------------------------------------------------------------
\* The cross-covariance matrix as the specification defines it
\* ------------------------------------------------------------------------
\* the default weights: 1.0 for each of n correspondences
DefaultWeights(n) == Tup([i \in 1..n |-> K], n)

\* entry (i, j) of w * (o (x) r), the weighted outer product of o and r
OuterEntry(w, o, r, i, j) ==
    IF o[i] = NaN \/ r[j] = NaN THEN NaN
    ELSE RDiv(w * RDiv(o[i] * r[j], K), K)

\* B = sum of w[n] * (obs[n] (x) cat[n]) over the correspondences n
WeightedOuterSum(obs, cat, w) ==
    Tup([i \in 1..Len(obs[1]) |->
           Tup([j \in 1..Len(cat[1]) |->
                  IF \E n \in 1..Len(obs) : OuterEntry(w[n], obs[n], cat[n], i, j) = NaN
                  THEN NaN
                  ELSE SumTo([n \in 1..Len(obs) |->
                                OuterEntry(w[n], obs[n], cat[n], i, j)], Len(obs))],
               Len(cat[1]))], Len(obs[1]))

\* C15: the cross-covariance matrix the solve builds is N x N and equals the
\* sum over all correspondences of w_i times the outer product of observed_i
\* and reference_i, every weight being the default 1.0 (solve_attitude takes
\* no weights): the unweighted sum that observed.T @ catalog computes.
C15_CrossCovarianceIsOuterSum ==
    frame.H # Undefined =>
        /\ Len(frame.H) = N
        /\ \A i \in 1..N : Len(frame.H[i]) = N
        /\ MatClose(frame.H,
                    WeightedOuterSum(frame.observed, frame.catalog,
                                     DefaultWeights(Len(frame.observed))),
                    Tol)

\* H has been built from a rotated catalog and is not symmetric
C15_Witness ==
    /\ pc = "solve_svd"
    /\ ~ArrayHasNaN(frame.H)
    /\ frame.H # Transpose(frame.H)
    /\ Len(frame.observed) >= 3

\* ------------------------------------------------------------------------
\* Order of the correspondences
\* ------------------------------------------------------------------------
\* array a with its rows in the order p (a[p] in numpy)
Permute(a, p) == Tup([n \in 1..Len(a) |-> a[p[n]]], Len(a))

\* the rows of an array of n rows in reverse order
Reversal(n) == [k \in 1..n |-> n + 1 - k]

\* the two behaviours of R.from_matrix on a matrix that is no rotation
Builds == {"raise", "convert"}

\* the running call of the session, as the frame of a call that has just
\* built H
AsCall(f) == [NewCall(f.observed, f.catalog) EXCEPT !.H = f.H, !.pc = "solve_svd"]

\* C16: order independence. The same permutation applied to the rows of
\* observed and of catalog leaves the cross-covariance matrix unchanged, for
\* every permutation; and the solve, which from there on reads H alone, ends
\* with the same rotation or the same exception (recomputed from the start
\* for the reversed order).
C16_OrderIndependent ==
    pc = "solve_svd" =>
        /\ \A p \in Permutations(1..Len(frame.observed)) :
              CrossCovariance(Permute(frame.observed, p),
                              Permute(frame.catalog, p)) = frame.H
        /\ \A b \in Builds :
              LET r     == Reversal(Len(frame.observed))
                  here  == RunAlone(AsCall(frame), b)
                  there == RunAlone(NewCall(Permute(frame.observed, r),
                                            Permute(frame.catalog, r)), b)
              IN here.result = there.result /\ here.err = there.err

\* H has been built from at least three correspondences, not all alike
C16_Witness ==
    /\ pc = "solve_svd"
    /\ Len(frame.observed) >= 3
    /\ frame.observed[1] # frame.observed[3]
    /\ frame.catalog[1] # frame.catalog[2]
    /\ ~ArrayHasNaN(frame.H)

\* ------------------------------------------------------------------------
\* Effects of a call on its arguments
\* ------------------------------------------------------------------------
\* the cell that calls solve_attitude, and the statements of the call
SolvePositions == {"cell_solve", "solve_H", "solve_svd", "solve_R", "solve_return"}

\* C17: a solve leaves its inputs unchanged. No step from the call to its
\* return or its exception changes a component of observed or of catalog,
\* in the caller's names or as the call sees them.
C17_InputsUnchanged ==
    [][(pc \in SolvePositions) =>
          /\ observed' = observed
          /\ catalog' = catalog
          /\ (frame'.observed # Undefined =>
                (frame'.observed = observed /\ frame'.catalog = catalog))]_vars

\* a call has returned on an observed array that a normalization would
\* have changed
C17_Witness ==
    /\ SolveReturned
    /\ \E n \in 1..Len(observed) : ~IsUnit(observed[n]) /\ ~NoDirection(observed[n])

\* ------------------------------------------------------------------------
\* Representations of the returned rotation
\* ------------------------------------------------------------------------
\* matrix -> quaternion -> matrix
QuatRoundTrip(M) == MatrixOfQuat(NormalizeQuat(QuatOfMatrix(M)))

\* Euler angles 'xyz' -> matrix
OfEuler(e) == from_euler("xyz", e)

\* the middle angle of the 'xyz' triple e is +-90 degrees
GimbalLock(e) == e[2] \in {90, -90}

\* how far a matrix entry can move when each Euler angle is rounded to the
\* grid (half a step, three angles); no rounding of angles for a matrix
\* whose angles are multiples of 90 degrees
EulerTol(M) == IF AxisAligned(M) THEN 2 * Tol ELSE (3 * Sin(AngleStep)) \div 2

C19_ResidualsDefined ==
    SolveReturned =>
        /\ "residuals" \in DOMAIN solution
        /\ DOMAIN solution.residuals = 1..Len(observed)
        /\ \A n \in 1..Len(observed) :
              /\ solution.residuals[n] \in 0..180
              /\ solution.residuals[n] =
                    residual(MatVec(R_est, observed[n]), catalog[n])

\* ------------------------------------------------------------------------
\* Control flow of a solve
\* ------------------------------------------------------------------------
\* position of a statement of solve_attitude in the function body
Line(p) == IF p = "solve_H" THEN 1
           ELSE IF p = "solve_svd" THEN 2
           ELSE IF p = "solve_R" THEN 3
           ELSE IF p = "solve_return" THEN 4
           ELSE 0

\* C20: a solve never retries. Within one call the statements run in the
\* order of the function body, each at most once (the decomposition
\* included); an error ends the call with that error, the frame dropped and
\* nothing returned; and the session never enters the call a second time.
C20_NoRetry ==
    [][/\ (Line(pc') # 0 /\ Line(pc) # 0) => Line(pc') = Line(pc) + 1
       /\ (Line(pc') # 0 /\ Line(pc) = 0) =>
             (pc = "cell_solve" /\ pc' = "solve_H" /\ frame.H = Undefined)
       /\ (pc' = "solve_svd") => frame'.U = Undefined
       /\ (err'.solve # err.solve) =>
             (/\ pc' = "cell_aligned"
              /\ frame' = NoFrame
              /\ R_est' = R_est
              /\ err.solve = "none")]_vars

\* the decomposition was attempted once, failed, and the call has ended
\* with its error
C20_Witness ==
    /\ pc = "cell_aligned"
    /\ err.solve = "LinAlgError"

\* ========================================================================
\* The parallax notebook (parallax_star_tracker_interactive.ipynb)
\* ========================================================================
\* Python floats are modelled as decimal floating-point numbers: << m, e >>
\* stands for m * 10^e with m of FloatDigits digits, or << 0, 0 >> for zero.
\* ------------------------------------------------------------------------
\* significant decimal digits kept by the float model
FloatDigits == 4
\* comparison tolerance of floats, in units of the last digit of the larger
FloatTol == 5

RECURSIVE Pow10(_)
Pow10(n) == IF n = 0 THEN 1 ELSE 10 * Pow10(n - 1)

RECURSIVE Float(_, _)
\* the float nearest to m * 10^e
Float(m, e) ==
    IF m = 0 THEN << 0, 0 >>
    ELSE IF Abs(m) >= Pow10(FloatDigits) THEN Float(RDiv(m, 10), e + 1)
    ELSE IF Abs(m) < Pow10(FloatDigits - 1) THEN Float(m * 10, e - 1)
    ELSE << m, e >>

\* x * y
FMul(x, y) == Float(x[1] * y[1], x[2] + y[2])

\* x / y, y not zero
FDiv(x, y) == Float(RDiv(x[1] * Pow10(FloatDigits + 1), y[1]),
                    x[2] - y[2] - (FloatDigits + 1))

\* x < y
FLess(x, y) ==
    IF x[1] <= 0 \/ y[1] <= 0
    THEN IF x[1] < 0 /\ y[1] < 0
         THEN (x[2] > y[2]) \/ (x[2] = y[2] /\ x[1] < y[1])
         ELSE x[1] < y[1]
    ELSE (x[2] < y[2]) \/ (x[2] = y[2] /\ x[1] < y[1])

\* x and y agree to FloatTol units of the last digit
FClose(x, y) ==
    IF x[1] = 0 \/ y[1] = 0 THEN x[1] = y[1]
    ELSE LET lo == IF x[2] < y[2] THEN x[2] ELSE y[2]
         IN /\ Abs(x[2] - y[2]) <= 1
            /\ Abs(x[1] * Pow10(x[2] - lo) - y[1] * Pow10(y[2] - lo))
                  <= FloatTol * Pow10(Abs(x[2] - y[2]))

\* format(x, ".<d>f"): x rounded to d decimals, as an integer count of 10^-d
Format(x, d) ==
    IF x[2] + d >= 0 THEN x[1] * Pow10(x[2] + d)
    ELSE IF -(x[2] + d) > FloatDigits THEN 0
    ELSE RDiv(x[1], Pow10(-(x[2] + d)))

\* AU_PER_PC = 206265  # 1 parsec in AU
AU_PER_PC == 206265

\* np.degrees(x): x * 180 / pi
degrees(x) == FMul(x, Float(5729578, -5))

\* as compute_parallax, returning theta_rad without the conversion to
\* arcseconds
compute_parallax_rad(baseline_au, star_distance_pc) ==
    LET star_distance_au == FMul(star_distance_pc, Float(AU_PER_PC, 0))
    IN IF star_distance_au[1] = 0
       THEN [err |-> "ZeroDivisionError", value |-> Undefined]
       ELSE [err |-> "none", value |-> FDiv(baseline_au, star_distance_au)]

\* def compute_parallax(baseline_au, star_distance_pc): the value returned,
\* or the ZeroDivisionError of the float division
compute_parallax(baseline_au, star_distance_pc) ==
    LET star_distance_au == FMul(star_distance_pc, Float(AU_PER_PC, 0))
    IN IF star_distance_au[1] = 0
       THEN [err |-> "ZeroDivisionError", value |-> Undefined]
       ELSE LET theta_rad    == FDiv(baseline_au, star_distance_au)
                theta_arcsec == FMul(degrees(theta_rad), Float(3600, 0))
            IN [err |-> "none", value |-> theta_arcsec]

\* a bounded float widget keeps its value within [lo, hi]
BoundedFloat(value, lo, hi) ==
    IF FLess(value, lo) THEN lo ELSE IF FLess(hi, value) THEN hi ELSE value

\* widgets.FloatSlider(value=..., min=..., max=...): the value it holds
FloatSlider(value, min, max) == BoundedFloat(value, min, max)

\* widgets.FloatLogSlider(value=..., base=10, min=..., max=...): min and max
\* are exponents of the base
FloatLogSlider(value, min, max) ==
    BoundedFloat(value, Float(1, min), Float(1, max))

\* as baseline_slider, the value kept as given
baseline_slider_unbounded(value) == value

\* baseline_slider = widgets.FloatSlider(value=0, min=0.01, max=40, ...)
baseline_slider(value) == FloatSlider(value, Float(1, -2), Float(40, 0))

\* distance_slider = widgets.FloatLogSlider(value=50, base=10, min=-3, max=3)
distance_slider(value) == FloatLogSlider(value, -3, 3)

\* output = widgets.Output(): the outputs it shows, and whether a
\* clear_output(wait=True) waits for the next output
NoOutput == [items |-> << >>, wait |-> FALSE]

\* clear_output(wait=...) inside the Output widget
clear_output(o, wait) == IF wait THEN [o EXCEPT !.wait = TRUE] ELSE NoOutput

\* an output arrives at the Output widget
Emit(o, item) ==
    IF o.wait THEN [items |-> << item >>, wait |-> FALSE]
    ELSE [o EXCEPT !.items = Append(@, item)]

\* the line printed by update_plot: the parallax to four decimals
Stream(parallax) == [kind |-> "stream", parallax |-> Format(parallax, 4)]

\* the figure shown by update_plot: one bar, and the title to two decimals
Figure(baseline, star_distance, parallax) ==
    [kind |-> "figure", bar |-> parallax,
     title |-> << Format(baseline, 2), Format(star_distance, 2) >>]

\* as update_plot, without clear_output(wait=True)
update_plot_append(w) ==
    LET parallax == compute_parallax(w.baseline, w.distance)
    IN IF parallax.err # "none"
       THEN [w EXCEPT !.runs = @ + 1, !.err = parallax.err]
       ELSE [w EXCEPT !.runs = @ + 1,
                      !.output =
                         Emit(Emit(w.output, Stream(parallax.value)),
                              Figure(w.baseline, w.distance, parallax.value))]

\* def update_plot(change=None): reads both sliders, computes, and renders
\* inside "with output:"
update_plot(w) ==
    LET baseline      == w.baseline
        star_distance == w.distance
        parallax      == compute_parallax(baseline, star_distance)
    IN IF parallax.err # "none"
       THEN [w EXCEPT !.runs = @ + 1, !.err = parallax.err]
       ELSE [w EXCEPT !.runs = @ + 1,
                      !.output =
                         Emit(Emit(clear_output(w.output, TRUE),
                                   Stream(parallax.value)),
                              Figure(baseline, star_distance, parallax.value))]

\* largest number of slider changes followed
MaxChanges == 4

\* values given to the baseline slider, by dragging or by assignment
BaselineInputs ==
    { << 0, 0 >>, Float(1, -2), Float(11, -2), Float(1, 0), Float(2, 0),
      Float(21, 0), Float(40, 0), Float(50, 0) }

\* values given to the distance slider
DistanceInputs ==
    { << 0, 0 >>, Float(1, -4), Float(1, -3), Float(1, 0), Float(2, 0),
      Float(50, 0), Float(200, 0), Float(1, 3), Float(1, 4) }

\* the variables of the attitude notebooks
session == << N, catalog, observed, true_rot, frame, R_est, euler, aligned,
              err, pc >>

\* the cell has built both sliders and the Output widget and registered
\* update_plot on both; nothing is displayed yet
InitWidget ==
    /\ N = 3
    /\ catalog = Undefined
    /\ observed = Undefined
    /\ true_rot = Undefined
    /\ frame = NoFrame
    /\ R_est = Undefined
    /\ euler = Undefined
    /\ aligned = Undefined
    /\ err = NoErr
    /\ pc = "widget"
    /\ calls = NoCalls
    /\ mission = NoMission
    /\ widget = [baseline |-> baseline_slider(<< 0, 0 >>),
                 distance |-> distance_slider(Float(50, 0)),
                 output |-> NoOutput, runs |-> 0, changes |-> 0,
                 err |-> "none", pc |-> "display"]

\* display(VBox), display(output), update_plot(): the end of the cell
DisplayCell ==
    /\ widget.pc = "display"
    /\ widget' = [update_plot(widget) EXCEPT !.pc = "live"]
    /\ UNCHANGED << mission, calls, session >>

\* the baseline slider is given a value; when the value it holds changes,
\* the observer update_plot runs
BaselineChange ==
    /\ widget.pc = "live"
    /\ widget.changes < MaxChanges
    /\ \E v \in BaselineInputs :
          LET new == baseline_slider(v)
          IN /\ new # widget.baseline
             /\ widget' = update_plot([widget EXCEPT !.baseline = new,
                                                     !.changes = @ + 1])
    /\ UNCHANGED << mission, calls, session >>

\* the distance slider is given a value; when the value it holds changes,
\* the observer update_plot runs
DistanceChange ==
    /\ widget.pc = "live"
    /\ widget.changes < MaxChanges
    /\ \E v \in DistanceInputs :
          LET new == distance_slider(v)
          IN /\ new # widget.distance
             /\ widget' = update_plot([widget EXCEPT !.distance = new,
                                                     !.changes = @ + 1])
    /\ UNCHANGED << mission, calls, session >>

NextWidget ==
    \/ DisplayCell
    \/ BaselineChange
    \/ DistanceChange

SpecWidget == InitWidget /\ [][NextWidget]_vars

\* the parallax the Output widget shows: the bar of its figure
Shown == widget.output.items[Len(widget.output.items)].bar

\* C21: compute_parallax returns the small-angle parallax theta = D/d in
\* arcseconds: for the values of the sliders, the result times the distance
\* in parsecs is the baseline in AU (so 1 arcsecond for 1 AU at 1 pc), it is
\* k times as large for a k times longer baseline, and k times as small for
\* a k times larger distance.
C21_Parallax ==
    widget.pc = "live" =>
        LET p == compute_parallax(widget.baseline, widget.distance)
        IN /\ p.err = "none"
           /\ Shown = p.value
           /\ FClose(FMul(p.value, widget.distance), widget.baseline)
           /\ (widget.baseline = Float(1, 0) /\ widget.distance = Float(1, 0))
                 => FClose(p.value, Float(1, 0))
           /\ \A k \in {2, 5, 10} :
                 /\ FClose(compute_parallax(FMul(widget.baseline, Float(k, 0)),
                                            widget.distance).value,
                           FMul(p.value, Float(k, 0)))
                 /\ FClose(FMul(compute_parallax(widget.baseline,
                                                 FMul(widget.distance,
                                                      Float(k, 0))).value,
                                Float(k, 0)),
                           p.value)

\* 1 AU at 1 pc is on display, after the sliders were moved there
C21_Witness ==
    /\ widget.pc = "live"
    /\ widget.changes = 2
    /\ widget.baseline = Float(1, 0)
    /\ widget.distance = Float(1, 0)
    /\ FClose(Shown, Float(1, 0))

\* ------------------------------------------------------------------------
\* C22..C25: the attitude solve, continued
\* ------------------------------------------------------------------------
\* diag(1, ..., 1, -1) of size n
LastFlipped(n) == Diag(Tup([i \in 1..n |-> IF i = n THEN -K ELSE K], n))

\* C22: reflection-correction step. For a valid correspondence set, the
\* matrix the returned rotation is built from is U.Vt when det(U.Vt) > 0 and
\* U.diag(1,...,1,-1).Vt when det(U.Vt) < 0, and not the transpose V.Ut.
C22_ReflectionCorrection ==
    (pc = "solve_return" /\ ValidSet(frame.observed, frame.catalog)) =>
        LET UVt == MatMul(frame.U, frame.Vt)
        IN /\ Det(UVt) > 0 => MatClose(frame.R_est, UVt, Tol)
           /\ Det(UVt) < 0 =>
                 MatClose(frame.R_est,
                          MatMul(MatMul(frame.U, LastFlipped(Len(frame.U))),
                                 frame.Vt), Tol)

\* C23: every vector that enters the cross-covariance has unit magnitude.
\* When H has been built from vectors that all have a direction, every
\* catalog row and every observed row it was built from is a unit vector:
\* observed is normalized before use, not assumed to be unit.
C23_UnitVectors ==
    (/\ pc = "solve_svd"
     /\ \A n \in 1..Len(frame.observed) : ~NoDirection(frame.observed[n])
     /\ \A n \in 1..Len(frame.catalog) : ~NoDirection(frame.catalog[n])) =>
        /\ \A n \in 1..Len(frame.catalog) : IsUnit(frame.catalog[n])
        /\ \A n \in 1..Len(frame.observed) : IsUnit(frame.observed[n])

\* a pair of vector sets with one best rotation: a valid correspondence set
\* in either order whose cross-covariance has full rank
NonDegenerate(a, b) ==
    /\ ValidSet(a, b)
    /\ ValidSet(b, a)
    /\ LET H == CrossCovariance(a, b)
       IN ~ArrayHasNaN(H) /\ svd_of(H)[2][Len(H)] > Tol

\* C25: swapping the arguments inverts the result. For a non-degenerate
\* pair, solve_attitude(observed, catalog) and solve_attitude(catalog,
\* observed) both return, and the two rotations compose to the identity
\* (to four tolerances, two conversions being composed).
C25_SwapInverts ==
    (pc = "cell_aligned" /\ SolveEnded /\ NonDegenerate(observed, catalog)) =>
        /\ err.solve = "none"
        /\ \A b \in {"raise", "convert"} :
              LET back == RunAlone(NewCall(catalog, observed), b)
              IN /\ back.pc = "returned"
                 /\ MatClose(MatMul(R_est, back.result), Identity(N), 4 * Tol)

\* ========================================================================
\* The mission-design notebook (JPL Small-Body Mission Design API tutorial),
\* in its two versions: the one whose sweep passes "mjd0" and tests
\* result["selectedMissions"], and the one whose sweep passes "launch" and
\* tests result.get("traj")
\* ========================================================================
\* A datetime is << ordinal, seconds >>: the proleptic Gregorian ordinal of
\* its date (1 for 0001-01-01) and the seconds since midnight.
\* ------------------------------------------------------------------------
\* datetime.MINYEAR and datetime.MAXYEAR
MINYEAR == 1
MAXYEAR == 9999

IsLeap(y) == (y % 4 = 0 /\ y % 100 # 0) \/ y % 400 = 0

DaysInMonth(y, m) ==
    IF m = 2 THEN (IF IsLeap(y) THEN 29 ELSE 28)
    ELSE IF m \in {4, 6, 9, 11} THEN 30 ELSE 31

DaysBeforeYear(y) ==
    LET p == y - 1 IN p * 365 + p \div 4 - p \div 100 + p \div 400

RECURSIVE DaysBeforeMonth(_, _)
DaysBeforeMonth(y, m) ==
    IF m = 1 THEN 0 ELSE DaysBeforeMonth(y, m - 1) + DaysInMonth(y, m - 1)

\* date(y, m, d).toordinal()
toordinal(y, m, d) == DaysBeforeYear(y) + DaysBeforeMonth(y, m) + d

\* datetime(y, m, d, h, 0, 0): ValueError for a field out of range
datetime(y, m, d, h) ==
    IF \/ y < MINYEAR \/ y > MAXYEAR
       \/ m < 1 \/ m > 12
       \/ d < 1 \/ d > DaysInMonth(y, m)
       \/ h < 0 \/ h > 23
    THEN [err |-> "ValueError", value |-> Undefined]
    ELSE [err |-> "none", value |-> << toordinal(y, m, d), h * 3600 >>]

\* dt + timedelta(days=n)
plus_days(dt, n) == << dt[1] + n, dt[2] >>

\* dt.strftime("%Y-%m-%d"): year, month and day of the date
strftime(dt) ==
    LET y == CHOOSE c \in (dt[1] \div 366 + 1)..(dt[1] \div 365 + 1) :
                 DaysBeforeYear(c) < dt[1] /\ dt[1] <= DaysBeforeYear(c + 1)
        n == dt[1] - DaysBeforeYear(y)
        m == CHOOSE c \in 1..12 :
                 /\ DaysBeforeMonth(y, c) < n
                 /\ n <= DaysBeforeMonth(y, c) + DaysInMonth(y, c)
    IN << y, m, n - DaysBeforeMonth(y, m) >>

RECURSIVE range(_, _, _)
\* list(range(start, stop, step)), step > 0
range(start, stop, step) ==
    IF start >= stop THEN << >>
    ELSE << start >> \o range(start + step, stop, step)

\* def mjd_conv(dt), for the value JD_EPOCH is bound to; the result is
\* counted in half days (mjd = result / 2)
mjd_conv(dt, JD_EPOCH) ==
    LET delta == IF dt[2] >= JD_EPOCH[2]
                 THEN [days |-> dt[1] - JD_EPOCH[1],
                       seconds |-> dt[2] - JD_EPOCH[2]]
                 ELSE [days |-> dt[1] - JD_EPOCH[1] - 1,
                       seconds |-> dt[2] - JD_EPOCH[2] + 86400]
        jd2   == 2 * delta.days + delta.seconds \div 43200
    IN jd2 - 4800001

\* largest number of launch dates and of flight times of a grid the kernel
\* holds before the notebook runs
MaxDates == 2
MaxTofs == 2

\* the names the first three cells bind
SetupNames == { "requests", "pd", "plt", "pprint", "base_url", "query_api" }

\* what the kernel holds when the notebook is opened: nothing; datetime and
\* timedelta; also a launch grid; also an epoch and mjd_conv
Kernels == { "fresh", "imported", "grid", "full" }

KernelNames(k) ==
    IF k = "fresh" THEN { }
    ELSE IF k = "imported" THEN { "datetime", "timedelta" }
    ELSE IF k = "grid"
    THEN { "datetime", "timedelta", "launch_dates", "tof_range" }
    ELSE { "datetime", "timedelta", "launch_dates", "tof_range",
           "JD_EPOCH", "mjd_conv" }

\* what query_api meets: an exception of requests.get, the HTTPError of
\* raise_for_status, or a JSON object: without the keys, with empty lists,
\* with a non-empty "selectedMissions", with a non-empty "traj"
Responses ==
    { "ConnectionError", "HTTPError", "nokeys", "empty", "missions", "traj" }

\* def query_api(params), for what the server does: the exception raised or
\* the JSON object returned
query_api(params, r) ==
    IF r \in { "ConnectionError", "HTTPError" }
    THEN [err |-> r, json |-> Undefined]
    ELSE [err |-> "none",
          json |-> IF r = "missions" THEN [selectedMissions |-> << "m1" >>]
                   ELSE IF r = "traj" THEN [traj |-> << "t1" >>]
                   ELSE IF r = "empty"
                   THEN [selectedMissions |-> << >>, traj |-> << >>]
                   ELSE [message |-> "m"]]

NoMissionErr == [params |-> "none", sweep |-> "none", df |-> "none"]

\* the notebook is open in a kernel; no cell has run
InitMission ==
    /\ N = 3
    /\ catalog = Undefined
    /\ observed = Undefined
    /\ true_rot = Undefined
    /\ frame = NoFrame
    /\ R_est = Undefined
    /\ euler = Undefined
    /\ aligned = Undefined
    /\ err = NoErr
    /\ pc = "mission"
    /\ calls = NoCalls
    /\ widget = NoWidget
    /\ \E nb \in { "mjd0", "launch" }, k \in Kernels,
          n \in 1..MaxDates, m \in 1..MaxTofs :
          /\ (k \in { "fresh", "imported" }) => (n = 1 /\ m = 1)
          /\ mission =
               [nb |-> nb, kernel |-> k, names |-> KernelNames(k),
                JD_EPOCH |-> IF k = "full"
                             THEN datetime(MINYEAR, 1, 1, 12).value
                             ELSE Undefined,
                launch_dates |->
                    IF k \in { "grid", "full" }
                    THEN Tup([x \in 1..n |->
                                plus_days(datetime(2025, 1, 1, 0).value,
                                          5 * (x - 1))], n)
                    ELSE Undefined,
                tof_range |->
                    IF k \in { "grid", "full" }
                    THEN range(180, 180 + 30 * m, 30)
                    ELSE Undefined,
                porkchop_data |-> Undefined, df |-> Undefined,
                queries |-> << >>, hits |-> << >>, failed |-> << >>,
                i |-> 0, j |-> 0, err |-> NoMissionErr, pc |-> "setup"]

\* Sections 1 to 3: the imports, base_url, def query_api
SetupCells ==
    /\ mission.pc = "setup"
    /\ mission' = [mission EXCEPT
                     !.names = @ \cup SetupNames,
                     !.pc = IF mission.nb = "mjd0" THEN "params" ELSE "sweep"]
    /\ UNCHANGED << widget, calls, session >>

\* Section 4 of the "mjd0" version: launch_start, launch_end, JD_EPOCH,
\* launch_span, launch_dates, tof_range, def mjd_conv. The cell ends at the
\* first statement that raises, with the names bound so far.
ParamsCell ==
    /\ mission.pc = "params"
    /\ IF "datetime" \notin mission.names
       THEN mission' = [mission EXCEPT !.err.params = "NameError",
                                       !.pc = "sweep"]
       ELSE LET launch_start == datetime(2025, 1, 1, 0).value
                launch_end   == datetime(2025, 3, 1, 0).value
                epoch        == datetime(-4712, 1, 1, 12)
                launch_span  == launch_end[1] - launch_start[1]
                steps        == range(0, launch_span, 5)
            IN IF epoch.err # "none"
               THEN mission' =
                      [mission EXCEPT
                         !.names = @ \cup { "launch_start", "launch_end" },
                         !.err.params = epoch.err,
                         !.pc = "sweep"]
               ELSE IF "timedelta" \notin mission.names
               THEN mission' =
                      [mission EXCEPT
                         !.names = @ \cup { "launch_start", "launch_end",
                                            "JD_EPOCH", "launch_span" },
                         !.JD_EPOCH = epoch.value,
                         !.err.params = "NameError",
                         !.pc = "sweep"]
               ELSE mission' =
                      [mission EXCEPT
                         !.names = @ \cup { "launch_start", "launch_end",
                                            "JD_EPOCH", "launch_span",
                                            "launch_dates", "tof_range",
                                            "mjd_conv" },
                         !.JD_EPOCH = epoch.value,
                         !.launch_dates =
                            Tup([x \in 1..Len(steps) |->
                                   plus_days(launch_start, steps[x])],
                                Len(steps)),
                         !.tof_range = range(180, 720, 30),
                         !.pc = "sweep"]
    /\ UNCHANGED << widget, calls, session >>

\* the cell after the sweep: Section 6 (the DataFrame) of the "mjd0"
\* version; the "launch" version goes on with a single query
AfterSweep(s) == IF s.nb = "mjd0" THEN "df" ELSE "done"

\* the sweep cell up to the head of the loops: target, porkchop_data = [],
\* the print, and the first evaluation of launch_dates and tof_range
SweepCell ==
    /\ mission.pc = "sweep"
    /\ IF \/ "launch_dates" \notin mission.names
          \/ (Len(mission.launch_dates) > 0
                /\ "tof_range" \notin mission.names)
       THEN mission' = [mission EXCEPT
                          !.names = @ \cup { "target", "porkchop_data" },
                          !.porkchop_data = << >>,
                          !.err.sweep = "NameError",
                          !.pc = AfterSweep(mission)]
       ELSE IF Len(mission.launch_dates) = 0 \/ Len(mission.tof_range) = 0
       THEN mission' = [mission EXCEPT
                          !.names = @ \cup { "target", "porkchop_data" },
                          !.porkchop_data = << >>,
                          !.pc = AfterSweep(mission)]
       ELSE mission' = [mission EXCEPT
                          !.names = @ \cup { "target", "porkchop_data" },
                          !.porkchop_data = << >>,
                          !.i = 1, !.j = 1,
                          !.pc = "loop"]
    /\ UNCHANGED << widget, calls, session >>

\* the loops move on to the next pair, or end
Advance(s) ==
    IF s.j < Len(s.tof_range) THEN [s EXCEPT !.j = @ + 1]
    ELSE IF s.i < Len(s.launch_dates) THEN [s EXCEPT !.i = @ + 1, !.j = 1]
    ELSE [s EXCEPT !.pc = AfterSweep(s)]

\* an exception leaves the loops and ends the sweep cell
Escape(s, e) ==
    [s EXCEPT !.err.sweep = e, !.pc = AfterSweep(s)]

\* as Failed, with a handler that prints nothing and raises again
Reraised(s, launch_date, tof) == Escape(s, "Exception")

\* except Exception as e: print(f"Failed for {launch_date} TOF {tof}: {e}")
Failed(s, launch_date, tof) ==
    [s EXCEPT !.failed = Append(@, << launch_date, tof >>)]

\* the integer keys of a decoded JSON object: its keys are strings
IntKeys(result) == { }

\* the body of try: of the "mjd0" version, after query_api has returned
\* result: result["selectedMissions"] and result[0] raise KeyError for a
\* key the object does not have
HandleMissions(s, launch_date, tof, result) ==
    IF "selectedMissions" \notin DOMAIN result
    THEN Failed(s, launch_date, tof)
    ELSE IF result.selectedMissions = << >> THEN s
    ELSE IF 0 \notin IntKeys(result)
    THEN Failed(s, launch_date, tof)
    ELSE [s EXCEPT !.porkchop_data =
            Append(@, [launch |-> launch_date, tof |-> "MJDf-MJD0",
                       best |-> result[0]])]

\* the body of try: of the "launch" version, after query_api has returned
\* result
HandleTraj(s, launch_date, tof, result) ==
    IF "traj" \notin DOMAIN result THEN s
    ELSE IF result.traj = << >> THEN s
    ELSE [s EXCEPT !.porkchop_data =
            Append(@, [launch |-> launch_date, tof |-> tof,
                       best |-> result.traj[1]])]

\* one pass of the loop body for the pair (launch_date, tof) the loops are
\* at, the server answering r: params is built, then try: query_api and
\* the test of the result, except Exception: the print
Pair(s, r) ==
    LET launch_date == s.launch_dates[s.i]
        tof         == s.tof_range[s.j]
    IN IF s.nb = "mjd0" /\ ("mjd_conv" \notin s.names
                               \/ "JD_EPOCH" \notin s.names)
       THEN Escape(s, "NameError")
       ELSE
        LET params == IF s.nb = "mjd0"
                      THEN [des |-> "1P",
                            mjd0 |-> mjd_conv(launch_date, s.JD_EPOCH),
                            tofmin |-> tof, tofmax |-> tof]
                      ELSE [des |-> "1P",
                            launch |-> strftime(launch_date),
                            tofmin |-> tof, tofmax |-> tof, vinfmax |-> 20]
            out    == query_api(params, r)
            asked  == [s EXCEPT
                         !.queries = Append(@, [launch_date |-> launch_date,
                                                tof |-> tof,
                                                params |-> params]),
                         !.hits = IF r = "missions"
                                  THEN Append(@, << launch_date, tof >>)
                                  ELSE @]
        IN Advance(IF out.err # "none" THEN Failed(asked, launch_date, tof)
                   ELSE IF s.nb = "mjd0"
                   THEN HandleMissions(asked, launch_date, tof, out.json)
                   ELSE HandleTraj(asked, launch_date, tof, out.json))

\* the loop body runs for the next pair
SweepPair ==
    /\ mission.pc = "loop"
    /\ \E r \in Responses : mission' = Pair(mission, r)
    /\ UNCHANGED << widget, calls, session >>

\* Section 6 of the "mjd0" version: df = pd.DataFrame(porkchop_data), then
\* df['launch'], a KeyError when the frame has no rows and so no columns
DfCell ==
    /\ mission.pc = "df"
    /\ IF "porkchop_data" \notin mission.names
       THEN mission' = [mission EXCEPT !.err.df = "NameError", !.pc = "done"]
       ELSE IF mission.porkchop_data = << >>
       THEN mission' = [mission EXCEPT !.names = @ \cup { "df" },
                                       !.df = << >>,
                                       !.err.df = "KeyError",
                                       !.pc = "done"]
       ELSE mission' = [mission EXCEPT !.names = @ \cup { "df" },
                                       !.df = mission.porkchop_data,
                                       !.pc = "done"]
    /\ UNCHANGED << widget, calls, session >>

NextMission ==
    \/ SetupCells
    \/ ParamsCell
    \/ SweepCell
    \/ SweepPair
    \/ DfCell

SpecMission == InitMission /\ [][NextMission]_vars

\* the Modified Julian Date of a datetime, in half days: days since
\* 1858-11-17 00:00
MJD2(dt) == 2 * (dt[1] - toordinal(1858, 11, 17)) + dt[2] \div 43200

\* C24: mjd_conv returns the Modified Julian Date. Once the parameter cell
\* has run in a kernel that has datetime and timedelta, mjd_conv is defined
\* and, for every launch date, returns the date's MJD; it is strictly
\* increasing, and a day later gives exactly 1 more.
C24_MjdConv ==
    (/\ mission.nb = "mjd0"
     /\ mission.kernel = "imported"
     /\ mission.pc \notin { "setup", "params" }) =>
        /\ mission.err.params = "none"
        /\ { "JD_EPOCH", "mjd_conv", "launch_dates" } \subseteq mission.names
        /\ \A x \in 1..Len(mission.launch_dates) :
              LET dt == mission.launch_dates[x]
              IN /\ mjd_conv(dt, mission.JD_EPOCH) = MJD2(dt)
                 /\ mjd_conv(plus_days(dt, 1), mission.JD_EPOCH)
                       = mjd_conv(dt, mission.JD_EPOCH) + 2
                 /\ \A y \in 1..Len(mission.launch_dates) :
                       x < y => mjd_conv(dt, mission.JD_EPOCH)
                                   < mjd_conv(mission.launch_dates[y],
                                              mission.JD_EPOCH)

\* the sweep cell has ended
SweepEnded == mission.pc \in { "df", "done" }

\* the pairs of launch_dates x tof_range from pair (i, j) on, launch date
\* first, flight times ascending
RECURSIVE PairsFrom(_, _, _, _)
PairsFrom(dates, tofs, i, j) ==
    IF i > Len(dates) THEN << >>
    ELSE IF j > Len(tofs) THEN PairsFrom(dates, tofs, i + 1, 1)
    ELSE << << dates[i], tofs[j] >> >> \o PairsFrom(dates, tofs, i, j + 1)

\* the (launch_date, tof) pairs query_api was called for, in call order
Asked ==
    Tup([q \in 1..Len(mission.queries) |->
           << mission.queries[q].launch_date, mission.queries[q].tof >>],
        Len(mission.queries))

\* C26: the sweep issues exactly one query_api call per (launch_date, tof)
\* pair, launch date first and flight times ascending, and ends after
\* |launch_dates| x |tof_range| calls whatever the calls raise; when the
\* grid is the one the parameter cell configures, that is 12 x 18 = 216.
C26_OneQueryPerPair ==
    SweepEnded =>
        /\ mission.err.sweep = "none"
        /\ { "launch_dates", "tof_range" } \subseteq mission.names
        /\ Asked = PairsFrom(mission.launch_dates, mission.tof_range, 1, 1)
        /\ Len(mission.queries)
              = Len(mission.launch_dates) * Len(mission.tof_range)
        /\ (mission.nb = "mjd0" /\ mission.kernel \in { "fresh", "imported" })
              => Len(mission.queries) = 12 * 18

C28_OneRowPerMission ==
    (mission.nb = "mjd0" /\ "porkchop_data" \in mission.names) =>
        /\ Len(mission.porkchop_data) = Len(mission.hits)
        /\ \A x \in 1..Len(mission.porkchop_data) :
              mission.porkchop_data[x].launch = mission.hits[x][1]

\* ------------------------------------------------------------------------
\* C29, C30: the parallax widget
\* ------------------------------------------------------------------------
\* C29: widget consistency. After the initial update_plot() and after any
\* sequence of slider changes, update_plot has run once for the display and
\* once per change, and the Output widget shows exactly one rendering (one
\* printed line, one figure), that of compute_parallax of the values the
\* sliders hold now: the line is that parallax to four decimals.
C29_OneRendering ==
    widget.pc = "live" =>
        LET p == compute_parallax(widget.baseline, widget.distance)
        IN /\ widget.runs = 1 + widget.changes
           /\ widget.err = "none"
           /\ p.err = "none"
           /\ widget.output.wait = FALSE
           /\ widget.output.items
                 = << Stream(p.value),
                      Figure(widget.baseline, widget.distance, p.value) >>

\* both sliders were moved, and what is shown is the rendering for their
\* new values
C29_Witness ==
    /\ widget.pc = "live"
    /\ widget.changes = 3
    /\ widget.runs = 4
    /\ widget.baseline = Float(2, 0)
    /\ widget.distance = Float(1, -3)
    /\ Len(widget.output.items) = 2
    /\ widget.output.items[1].parallax = 20000000

\* the parallax as the printed line shows it, in units of 0.0001 arcsecond
Printed == widget.output.items[1].parallax

\* the sliders hold values within their ranges, so the divisor is positive
InRange ==
    /\ ~FLess(widget.baseline, Float(1, -2))
    /\ ~FLess(Float(40, 0), widget.baseline)
    /\ ~FLess(widget.distance, Float(1, -3))
    /\ ~FLess(Float(1, 3), widget.distance)
    /\ FLess(<< 0, 0 >>, FMul(widget.distance, Float(AU_PER_PC, 0)))

\* C30, as amended: in every state of the widget, the initial one created
\* with value=0 included, the baseline is in [0.01, 40] and the distance in
\* [10^-3, 10^3]; so the divisor is positive, compute_parallax never
\* divides by zero and the parallax it returns (the bar of the figure) is
\* strictly positive. The printed line rounds it to four decimals and is
\* not negative.
C30_SlidersInRange ==
    /\ InRange
    /\ widget.err = "none"
    /\ widget.pc = "live" => (FLess(<< 0, 0 >>, Shown) /\ Printed >= 0)

\* C30, as stated: ... and the displayed parallax is strictly positive
C30_DisplayedPositive ==
    /\ InRange
    /\ widget.err = "none"
    /\ widget.pc = "live" => (FLess(<< 0, 0 >>, Shown) /\ Printed > 0)

\* the shortest baseline, which the slider created with value=0 holds, and
\* the largest distance: a positive parallax, printed as 0.0000
C30_Witness ==
    /\ widget.pc = "live"
    /\ widget.baseline = Float(1, -2)
    /\ widget.distance = Float(1, 3)
    /\ FLess(<< 0, 0 >>, Shown)
    /\ Printed = 0

====
